---- MODULE Spec2Model ----
(***************************************************************************)
(* Rusty Space Miner (src/src/main.rs): the game loop of main and the      *)
(* systems it calls (physics_system, collision_system, mining_system, the  *)
(* asteroid spawner and the difficulty ramp, read_input).                  *)
(*                                                                         *)
(* Fuel is an f32 in the source that only ever takes multiples of 0.5      *)
(* between 0.0 and 120.0, all exactly representable; the model counts it   *)
(* in half units (200 = 100.0, 1 = 0.5, 40 = 20.0).                        *)
(***************************************************************************)
EXTENDS Integers, Sequences, FiniteSets, TLC

\* ---------------------------------------------------------------- constants
GRID_W == 32
GRID_H == 15
FUEL_START == 200
FUEL_MAX == 200
FUEL_DECAY == 1
CRYSTAL_FUEL == 40
REWARD == 10
SPAWN_RATE_START == 50
SPAWN_RATE_MIN == 10
RAMP_PERIOD == 500
RAMP_STEP == 5
START_X == 10
START_Y == 10
U16 == 65536
\* render: columns scanned per row, blanks printed after the ship's glyph,
\* the last column that still gets them, fuel per segment of the bar.
VIEW_W == 34
SHIP_PAD == 2
PAD_LIMIT == 32
FUEL_PER_BLOCK == 20

\* ------------------------------------------------------------------- bounds
\* Frames processed in one checked window of a session.
MaxFrames == 16
\* A window starts at session start, or after the player idled (unrecognised
\* keys only) for EarlyTick or LateTick frames.
EarlyTick == 36
LateTick == 184
\* A further window starts at EndTick, the Crystal mined on the way there.
EndTick == 232
\* Ticks covered by the specification of the spawner and ramp alone.
MaxRampTick == 4600
\* Frames of the end-to-end scenario.
ScenarioLen == 3

\* ---------------------------------------------------------------- data model
Resource == {"Iron", "Crystal", "Gold"}
Intents == {"Up", "Down", "Left", "Right", "Mine", "Quit", "None"}
Nothing == "Nothing"
Keys == {"w", "a", "s", "d", "space", "q", "other"}

Max(a, b) == IF a >= b THEN a ELSE b
Min(a, b) == IF a <= b THEN a ELSE b

\* Ship::new()
ShipNew ==
  [ fuel |-> FUEL_START,
    cargo |-> [k \in Resource |-> 0],
    upgrades |-> << >>,
    x |-> START_X,
    y |-> START_Y ]

\* let mut asteroids = vec![...]
InitialAsteroids ==
  << [x |-> 5, y |-> 5], [x |-> 20, y |-> 8], [x |-> 15, y |-> 12] >>

\* let mut resources = vec![...]
InitialResources ==
  << [x |-> 8, y |-> 3, kind |-> "Iron"],
     [x |-> 25, y |-> 10, kind |-> "Crystal"],
     [x |-> 12, y |-> 7, kind |-> "Gold"] >>

\* impl From<KeyEvent> for InputEvent
InputEventFrom(key) ==
  CASE key = "w" -> "Up"
    [] key = "a" -> "Left"
    [] key = "s" -> "Down"
    [] key = "d" -> "Right"
    [] key = "space" -> "Mine"
    [] key = "q" -> "Quit"
    [] OTHER -> "None"

\* ------------------------------------------------------------------ systems
\* Mutant of Move: the edge guards are missing, so the u16 arithmetic wraps.
MoveUnguarded(in, s) ==
  CASE in = "Up" -> [s EXCEPT !.y = (s.y - 1) % U16]
    [] in = "Down" -> [s EXCEPT !.y = (s.y + 1) % U16]
    [] in = "Left" -> [s EXCEPT !.x = (s.x - 1) % U16]
    [] in = "Right" -> [s EXCEPT !.x = (s.x + 1) % U16]
    [] OTHER -> s

\* The match of physics_system: one guarded step on u16 coordinates.
Move(in, s) ==
  CASE in = "Up" /\ s.y > 0 -> [s EXCEPT !.y = (s.y - 1) % U16]
    [] in = "Down" /\ s.y < GRID_H - 1 -> [s EXCEPT !.y = (s.y + 1) % U16]
    [] in = "Left" /\ s.x > 0 -> [s EXCEPT !.x = (s.x - 1) % U16]
    [] in = "Right" /\ s.x < GRID_W - 1 -> [s EXCEPT !.x = (s.x + 1) % U16]
    [] OTHER -> s

\* Mutant of Decay: the .max(0.0) is missing.
DecayNoFloor(f) == f - FUEL_DECAY

\* ship.fuel = (ship.fuel - 0.5).max(0.0)
Decay(f) == Max(f - FUEL_DECAY, 0)

\* Mutant of physics_system: fuel decays only when the ship moved.
PhysicsDecayOnMove(in, s) ==
  LET m == Move(in, s) IN IF m = s THEN s ELSE [m EXCEPT !.fuel = Decay(m.fuel)]

physics_system(in, s) ==
  LET m == Move(in, s) IN [m EXCEPT !.fuel = Decay(m.fuel)]

collision_system(s, asts) ==
  \E i \in 1..Len(asts) : asts[i].x = s.x /\ asts[i].y = s.y

\* resources.iter().position(|r| r.x == ship.x && r.y == ship.y); 0 = None
Position(s, res) ==
  LET hits == {i \in 1..Len(res) : res[i].x = s.x /\ res[i].y = s.y}
  IN IF hits = {} THEN 0 ELSE CHOOSE i \in hits : \A j \in hits : i <= j

\* Mutant of Remove: the node and every node after it are dropped.
RemoveTail(res, idx) == SubSeq(res, 1, idx - 1)

\* resources.remove(idx)
Remove(res, idx) == SubSeq(res, 1, idx - 1) \o SubSeq(res, idx + 1, Len(res))

\* Mutant of Refuel: the .min(100.0) is missing.
RefuelUnclamped(f) == f + CRYSTAL_FUEL

\* Mutant of Refuel: a refill that would pass the maximum is skipped.
RefuelNoPartial(f) == IF f + CRYSTAL_FUEL <= FUEL_MAX THEN f + CRYSTAL_FUEL ELSE f

\* Mutant of Refuel: a Crystal fills the tank.
RefuelFull(f) == FUEL_MAX

\* ship.fuel = (ship.fuel + 20.0).min(100.0)
Refuel(f) == Min(f + CRYSTAL_FUEL, FUEL_MAX)

\* Mutant of mining_system: the node is credited but not removed.
MiningKeepsNode(in, s, res) ==
  LET idx == Position(s, res) IN
  IF in = "Mine" /\ idx # 0
  THEN LET node == res[idx]
           credited == [s EXCEPT !.cargo[node.kind] = @ + 1]
       IN [ ship |-> IF node.kind = "Crystal"
                     THEN [credited EXCEPT !.fuel = Min(@ + CRYSTAL_FUEL, FUEL_MAX)]
                     ELSE credited,
            resources |-> res,
            mined |-> node.kind ]
  ELSE [ship |-> s, resources |-> res, mined |-> Nothing]

\* mining_system: the ship, the resources and the returned Option<Resource>.
mining_system(in, s, res) ==
  LET idx == Position(s, res) IN
  IF in = "Mine" /\ idx # 0
  THEN LET node == res[idx]
           credited == [s EXCEPT !.cargo[node.kind] = @ + 1]
       IN [ ship |-> IF node.kind = "Crystal"
                     THEN [credited EXCEPT !.fuel = Refuel(@)]
                     ELSE credited,
            resources |-> Remove(res, idx),
            mined |-> node.kind ]
  ELSE [ship |-> s, resources |-> res, mined |-> Nothing]

\* Mutant of SpawnDue: the test uses the rate the ramp leaves on this tick.
SpawnDueAfterRamp(t, rate) ==
  t % (IF t % RAMP_PERIOD = 0 /\ rate > SPAWN_RATE_MIN
       THEN rate - RAMP_STEP
       ELSE rate) = 0

\* if tick % spawn_rate == 0 { asteroids.push(...) }
SpawnDue(t, rate) == t % rate = 0

\* Mutant of Ramp: the floor test is missing.
RampNoFloor(t, rate) == IF t % RAMP_PERIOD = 0 THEN rate - RAMP_STEP ELSE rate

\* Mutant of Ramp: the ramp runs before tick is incremented.
RampBeforeTick(t, rate) ==
  IF (t - 1) % RAMP_PERIOD = 0 /\ rate > SPAWN_RATE_MIN THEN rate - RAMP_STEP ELSE rate

\* if tick % 500 == 0 && spawn_rate > 10 { spawn_rate -= 5 }
Ramp(t, rate) ==
  IF t % RAMP_PERIOD = 0 /\ rate > SPAWN_RATE_MIN THEN rate - RAMP_STEP ELSE rate

\* Mutant of Terminal: the fuel test is missing.
TerminalCollisionOnly(s, asts) == collision_system(s, asts)

\* collision_system(&ship, &asteroids) || ship.fuel <= 0.0
Terminal(s, asts) == collision_system(s, asts) \/ s.fuel <= 0

\* The cells the model draws rng.gen_range(0..32), rng.gen_range(0..15) from:
\* the extremes of both ranges and the ship's starting cell.
SpawnXs == {0, START_X, GRID_W - 1}
SpawnYs == {0, START_Y, GRID_H - 1}

\* -------------------------------------------------------------------- state
VARIABLES
  pc,           \* where main is: "setup", "welcome", "poll", "yield",
                \* "cleanup", "done", "panicked"
  term,         \* the terminal: raw mode, alternate screen, cursor hidden
  ship, asteroids, resources, score, tick, spawn_rate,
  input,        \* the intent read_input returned last
  mined,        \* what mining_system returned last
  announced,    \* "Game Over! Final Score" has been printed
  frames,       \* frames processed in this window
  screen        \* the frame render wrote last; followed in SpecRender only

vars == << pc, term, ship, asteroids, resources, score, tick, spawn_rate,
           input, mined, announced, frames, screen >>

game == << ship, asteroids, resources, score, tick, spawn_rate, input, mined,
          screen >>

NoScreen == << >>

TermOff == [raw |-> FALSE, alt |-> FALSE, hidden |-> FALSE]
TermOn == [raw |-> TRUE, alt |-> TRUE, hidden |-> TRUE]

\* The state main is in when it starts.
Fresh ==
  /\ pc = "setup"
  /\ term = TermOff
  /\ ship = ShipNew
  /\ asteroids = InitialAsteroids
  /\ resources = InitialResources
  /\ score = 0
  /\ tick = 0
  /\ spawn_rate = SPAWN_RATE_START
  /\ input = "None"
  /\ mined = Nothing
  /\ announced = FALSE
  /\ frames = 0
  /\ screen = NoScreen

\* Cells the asteroids spawned while the player idled are drawn from.
IdleSpawnCells == { [x |-> 0, y |-> 0] }

\* The state of the loop after k frames in which only unrecognised keys came:
\* the ship has not moved, fuel decayed k times, one asteroid was pushed on
\* every multiple of the spawn rate (none on the ship, or the game had ended).
Idled(k) ==
  /\ k < RAMP_PERIOD
  /\ k * FUEL_DECAY < FUEL_START
  /\ pc = "poll"
  /\ term = TermOn
  /\ ship = [ShipNew EXCEPT !.fuel = FUEL_START - k * FUEL_DECAY]
  /\ \E spawned \in [1..(k \div SPAWN_RATE_START) -> IdleSpawnCells] :
        asteroids = InitialAsteroids \o spawned
  /\ resources = InitialResources
  /\ score = 0
  /\ tick = k
  /\ spawn_rate = SPAWN_RATE_START
  /\ input = "None"
  /\ mined = Nothing
  /\ announced = FALSE
  /\ frames = 0
  /\ screen = NoScreen

\* The state of the loop after k frames of which 15 carried a Right (the ship
\* flew from its start to the Crystal's cell), a later one, frame m, carried
\* the Mine that took the Crystal, and the others only unrecognised keys:
\* fuel decayed m times, was refilled, and decayed on every frame since.
Refuelled(k) ==
  LET there == [ShipNew EXCEPT !.x = InitialResources[2].x]
      flight == there.x - START_X
  IN
  /\ k < RAMP_PERIOD
  /\ pc = "poll"
  /\ term = TermOn
  /\ \E m \in (flight + 1)..(k - 1) :
        LET left == Refuel(FUEL_START - m * FUEL_DECAY) - (k - m) * FUEL_DECAY IN
        /\ left > 0
        /\ ship = [there EXCEPT !.fuel = left, !.cargo["Crystal"] = 1]
  /\ \E spawned \in [1..(k \div SPAWN_RATE_START) -> IdleSpawnCells] :
        asteroids = InitialAsteroids \o spawned
  /\ resources = Remove(InitialResources, Position(there, InitialResources))
  /\ score = REWARD
  /\ tick = k
  /\ spawn_rate = SPAWN_RATE_START
  /\ input = "None"
  /\ mined = Nothing
  /\ announced = FALSE
  /\ frames = 0
  /\ screen = NoScreen

Init == Fresh \/ Idled(EarlyTick) \/ Idled(LateTick) \/ Refuelled(EndTick)

\* terminal::enable_raw_mode(), EnterAlternateScreen, cursor::Hide, welcome screen
Setup ==
  /\ pc = "setup"
  /\ pc' = "welcome"
  /\ term' = TermOn
  /\ UNCHANGED << game, announced, frames >>

\* enable_raw_mode().unwrap() or execute!(..).unwrap() panics: the first before
\* raw mode is on, the second after.
SetupFail ==
  /\ pc = "setup"
  /\ pc' = "panicked"
  /\ \E raw \in BOOLEAN : term' = [TermOff EXCEPT !.raw = raw]
  /\ UNCHANGED << game, announced, frames >>

\* "Press any key to start...": the loop at lines 229-235 breaks on a key.
WelcomeKey ==
  /\ pc = "welcome"
  /\ pc' = "poll"
  /\ UNCHANGED << term, game, announced, frames >>

\* read_input: event::poll timed out, or the event read was not a key.
PollEmpty ==
  /\ pc = "poll"
  /\ pc' = "yield"
  /\ UNCHANGED << term, game, announced, frames >>

\* read_input: yield_now().await returns and the loop polls again.
Yield ==
  /\ pc = "yield"
  /\ pc' = "poll"
  /\ UNCHANGED << term, game, announced, frames >>

\* event::poll(..).unwrap() / event::read().unwrap() / a write's unwrap panics:
\* the process unwinds out of main, and nothing restores the terminal.
IOFail ==
  /\ pc \in {"welcome", "poll", "cleanup"}
  /\ pc' = "panicked"
  /\ UNCHANGED << term, game, announced, frames >>

\* Mutant of Quit: the Game Over line is printed on the way out of the loop.
QuitAnnounces ==
  /\ pc = "poll"
  /\ input' = "Quit"
  /\ pc' = "cleanup"
  /\ announced' = TRUE
  /\ UNCHANGED << term, ship, asteroids, resources, score, tick, spawn_rate,
                  mined, frames, screen >>

\* if let InputEvent::Quit = input { break; }
Quit ==
  /\ pc = "poll"
  /\ \E key \in Keys :
       /\ InputEventFrom(key) = "Quit"
       /\ input' = InputEventFrom(key)
  /\ pc' = "cleanup"
  /\ UNCHANGED << term, ship, asteroids, resources, score, tick, spawn_rate,
                  mined, announced, frames, screen >>

\* Mutant of Push: the new asteroid is inserted at the front.
PushFront(asts, cell) == << cell >> \o asts

\* asteroids.push(Asteroid { x: new_x, y: new_y })
Push(asts, cell) == Append(asts, cell)

\* Mutant of ScoreAfter: the reward is added on every frame.
ScoreEveryFrame(sc, got) == sc + REWARD

\* if let Some(_mined) = mining_system(..) { score += 10; }
ScoreAfter(sc, got) == IF got # Nothing THEN sc + REWARD ELSE sc

\* The cells rng.gen_range(0..32), rng.gen_range(0..15) can give on tick t.
SpawnChoices(t, rate) ==
  IF SpawnDue(t, rate)
  THEN {[x |-> nx, y |-> ny] : nx \in SpawnXs, ny \in SpawnYs}
  ELSE {[x |-> 0, y |-> 0]}

\* Mutant of Frame: mining_system and the score run before the terminal check.
FrameMinesFirst ==
  /\ pc = "poll"
  /\ frames < MaxFrames
  /\ \E key \in Keys, cell \in SpawnChoices(tick + 1, spawn_rate) :
       LET in == InputEventFrom(key)
           moved == physics_system(in, ship)
           t == tick + 1
           asts == IF SpawnDue(t, spawn_rate)
                   THEN Append(asteroids, cell)
                   ELSE asteroids
           m == mining_system(in, moved, resources)
       IN /\ in # "Quit"
          /\ input' = in
          /\ tick' = t
          /\ asteroids' = asts
          /\ spawn_rate' = Ramp(t, spawn_rate)
          /\ frames' = frames + 1
          /\ ship' = m.ship
          /\ resources' = m.resources
          /\ mined' = m.mined
          /\ score' = IF m.mined # Nothing THEN score + REWARD ELSE score
          /\ IF Terminal(m.ship, asts)
             THEN announced' = TRUE /\ pc' = "cleanup"
             ELSE pc' = "poll" /\ UNCHANGED announced
  /\ UNCHANGED << term, screen >>

\* One frame of the loop for a key that is not Quit: physics, spawner, ramp,
\* the terminal check, then mining and the score.
Frame ==
  /\ pc = "poll"
  /\ frames < MaxFrames
  /\ \E key \in Keys, cell \in SpawnChoices(tick + 1, spawn_rate) :
       LET in == InputEventFrom(key)
           moved == physics_system(in, ship)
           t == tick + 1
           asts == IF SpawnDue(t, spawn_rate)
                   THEN Push(asteroids, cell)
                   ELSE asteroids
           m == mining_system(in, moved, resources)
       IN /\ in # "Quit"
          /\ input' = in
          /\ tick' = t
          /\ asteroids' = asts
          /\ spawn_rate' = Ramp(t, spawn_rate)
          /\ frames' = frames + 1
          /\ IF Terminal(moved, asts)
             THEN /\ ship' = moved
                  /\ announced' = TRUE
                  /\ pc' = "cleanup"
                  /\ UNCHANGED << resources, score, mined >>
             ELSE /\ ship' = m.ship
                  /\ resources' = m.resources
                  /\ mined' = m.mined
                  /\ score' = ScoreAfter(score, m.mined)
                  /\ pc' = "poll"
                  /\ UNCHANGED announced
  /\ UNCHANGED << term, screen >>

\* execute!(stdout, cursor::Show, LeaveAlternateScreen); disable_raw_mode()
Cleanup ==
  /\ pc = "cleanup"
  /\ pc' = "done"
  /\ term' = TermOff
  /\ UNCHANGED << game, announced, frames >>

Next ==
  \/ Setup
  \/ SetupFail
  \/ WelcomeKey
  \/ PollEmpty
  \/ Yield
  \/ IOFail
  \/ Quit
  \/ Frame
  \/ Cleanup

Spec == Init /\ [][Next]_vars

\* The scheduling the runtime gives: a yielded read_input is polled again,
\* every poll returns (with a key, without one, or with an error), and main
\* runs its straight-line code.  Nothing makes a key arrive.
FairSpec ==
  /\ Spec
  /\ WF_vars(Yield)
  /\ WF_vars(PollEmpty \/ Quit \/ Frame \/ IOFail)
  /\ WF_vars(Setup \/ SetupFail)
  /\ WF_vars(Cleanup \/ IOFail)

\* ------------------------------------------- the spawner and the ramp alone
\* Lines 247-259 applied tick after tick, without the rest of the frame: the
\* counter, the pushes and the rate over more ticks than one tank of fuel lasts.
RampInit ==
  /\ pc = "ramp"
  /\ term = TermOn
  /\ ship = ShipNew
  /\ asteroids = InitialAsteroids
  /\ resources = InitialResources
  /\ score = 0
  /\ tick = 0
  /\ spawn_rate = SPAWN_RATE_START
  /\ input = "None"
  /\ mined = Nothing
  /\ announced = FALSE
  /\ frames = 0
  /\ screen = NoScreen

RampSpawnCells == { [x |-> 0, y |-> 0] }

RampFrame ==
  /\ pc = "ramp"
  /\ tick < MaxRampTick
  /\ tick' = tick + 1
  /\ \E cell \in RampSpawnCells :
       asteroids' = IF SpawnDue(tick + 1, spawn_rate)
                    THEN Push(asteroids, cell)
                    ELSE asteroids
  /\ spawn_rate' = Ramp(tick + 1, spawn_rate)
  /\ UNCHANGED << pc, term, ship, resources, score, input, mined, announced,
                  frames, screen >>

RampNext == RampFrame

SpecRamp == RampInit /\ [][RampNext]_vars

\* ----------------------------------------------------- physics_system alone
\* physics_system applied to the ship of Ship::new() for any sequence of
\* intents, without the loop's terminal check: all four edges and the floor of
\* the fuel decay are reached.
PhysicsInit ==
  /\ pc = "physics"
  /\ term = TermOn
  /\ ship = ShipNew
  /\ asteroids = InitialAsteroids
  /\ resources = InitialResources
  /\ score = 0
  /\ tick = 0
  /\ spawn_rate = SPAWN_RATE_START
  /\ input = "None"
  /\ mined = Nothing
  /\ announced = FALSE
  /\ frames = 0
  /\ screen = NoScreen

PhysicsStep ==
  /\ pc = "physics"
  /\ \E in \in Intents :
       /\ input' = in
       /\ ship' = physics_system(in, ship)
  /\ UNCHANGED << pc, term, asteroids, resources, score, tick, spawn_rate,
                  mined, announced, frames, screen >>

PhysicsNext == PhysicsStep

SpecPhysics == PhysicsInit /\ [][PhysicsNext]_vars

\* ------------------------------------------------------------------ render
\* A row of the frame is a sequence of characters.  The box-drawing border
\* is written "|" and the Crystal glyph "+": one character each, as in the
\* source.
ShipGlyph == << ">", "A", "<" >>

Glyph(kind) ==
  CASE kind = "Iron" -> "*"
    [] kind = "Crystal" -> "+"
    [] kind = "Gold" -> "$"

\* for _ in 0..2 { if x < 32 { print!(" "); } }
ShipPad(x) == IF x < PAD_LIMIT THEN [i \in 1..SHIP_PAD |-> " "] ELSE << >>

\* What the body of the loop over x prints for column x of row y.
CellText(x, y, s, asts, res) ==
  IF x = s.x /\ y = s.y
  THEN ShipGlyph \o ShipPad(x)
  ELSE IF \E i \in 1..Len(asts) : asts[i].x = x /\ asts[i].y = y
  THEN << "O" >>
  ELSE LET at == [x |-> x, y |-> y]
           idx == Position(at, res)
       IN IF idx # 0 THEN << Glyph(res[idx].kind) >> ELSE << " " >>

RECURSIVE RowFrom(_, _, _, _, _)
RowFrom(x, y, s, asts, res) ==
  IF x >= VIEW_W THEN << >>
  ELSE CellText(x, y, s, asts, res) \o RowFrom(x + 1, y, s, asts, res)

\* print!("|"); for x in 0..34 { .. } println!("|");
Row(y, s, asts, res) == << "|" >> \o RowFrom(0, y, s, asts, res) \o << "|" >>

\* (ship.fuel / 10.0).round() as usize
FuelBlocks(f) == (2 * f + FUEL_PER_BLOCK) \div (2 * FUEL_PER_BLOCK)

\* render: the grid rows and the numbers of the footer.
render(s, asts, res, sc) ==
  [ rows |-> [r \in 1..GRID_H |-> Row(r - 1, s, asts, res)],
    fuel_blocks |-> FuelBlocks(s.fuel),
    cargo |-> s.cargo["Iron"] + s.cargo["Crystal"] + s.cargo["Gold"],
    score |-> sc ]

\* render applied to states the loop shows around the first spawn: the ship
\* on any cell after 49 frames, or after 50 with the asteroid pushed on tick
\* 50, the Gold node mined on the way (cargo and score credited) or not.
RenderAsteroids(spawned) ==
  IF spawned
  THEN {Push(InitialAsteroids, [x |-> nx, y |-> ny]) : nx \in SpawnXs, ny \in SpawnYs}
  ELSE {InitialAsteroids}

RenderInit ==
  /\ pc = "render"
  /\ term = TermOn
  /\ \E spawned \in BOOLEAN, gold \in BOOLEAN,
        sx \in 0..(GRID_W - 1), sy \in 0..(GRID_H - 1) :
       /\ tick = IF spawned THEN SPAWN_RATE_START ELSE SPAWN_RATE_START - 1
       /\ asteroids \in RenderAsteroids(spawned)
       /\ resources = IF gold THEN SubSeq(InitialResources, 1, 2)
                              ELSE InitialResources
       /\ score = IF gold THEN REWARD ELSE 0
       /\ ship = [ShipNew EXCEPT !.x = sx, !.y = sy,
                                 !.fuel = FUEL_START - tick * FUEL_DECAY,
                                 !.cargo["Gold"] = IF gold THEN 1 ELSE 0]
  /\ spawn_rate = SPAWN_RATE_START
  /\ input = "None"
  /\ mined = Nothing
  /\ announced = FALSE
  /\ frames = 0
  /\ screen = NoScreen

RenderStep ==
  /\ pc = "render"
  /\ pc' = "shown"
  /\ screen' = render(ship, asteroids, resources, score)
  /\ UNCHANGED << term, ship, asteroids, resources, score, tick, spawn_rate,
                  input, mined, announced, frames >>

RenderNext == RenderStep

SpecRender == RenderInit /\ [][RenderNext]_vars

\* ------------------------------------------------- the end-to-end scenario
\* The session of main with the Gold node placed at (12,10), two cells to the
\* right of the new ship, and the last ScenarioLen frames of a window to play.
ScenarioResources ==
  << [x |-> 8, y |-> 3, kind |-> "Iron"],
     [x |-> 25, y |-> 10, kind |-> "Crystal"],
     [x |-> START_X + 2, y |-> START_Y, kind |-> "Gold"] >>

ScenarioInit ==
  /\ pc = "setup"
  /\ term = TermOff
  /\ ship = ShipNew
  /\ asteroids = InitialAsteroids
  /\ resources = ScenarioResources
  /\ score = 0
  /\ tick = 0
  /\ spawn_rate = SPAWN_RATE_START
  /\ input = "None"
  /\ mined = Nothing
  /\ announced = FALSE
  /\ frames = MaxFrames - ScenarioLen
  /\ screen = NoScreen

SpecScenario == ScenarioInit /\ [][Next]_vars

\* =================================================================== claims
Cell(e) == [x |-> e.x, y |-> e.y]
Cells(seq) == {Cell(seq[i]) : i \in 1..Len(seq)}
InLoop == pc \in {"poll", "yield"}
\* A step that processed a frame (a key other than Quit came).
FrameStep == pc = "poll" /\ tick' = tick + 1
\* A frame on which mining_system was called (the game did not end).
MiningStep == FrameStep /\ pc' = "poll"

\* C1: from Ship::new(), whatever intents physics_system is given, the ship
\* stays inside the grid: 0 <= x < 32 and 0 <= y < 15.
C1_ShipInGrid ==
  /\ ship.x \in 0..(GRID_W - 1)
  /\ ship.y \in 0..(GRID_H - 1)

\* Twenty-two steps from the start, the last a Right, the ship in the last
\* column of its starting row: the state that twenty-one Rights and a Right
\* given at the edge lead to.
C1_Witness ==
  /\ pc = "physics"
  /\ ship.fuel = FUEL_START - 22 * FUEL_DECAY
  /\ input = "Right"
  /\ ship.x = GRID_W - 1
  /\ ship.y = START_Y

\* C2: fuel is in [0.0, 100.0] in every reachable state, and whatever the
\* next intent is, physics_system leaves it in that range.
C2_FuelInRange ==
  /\ ship.fuel \in 0..FUEL_MAX
  /\ \A in \in Intents : physics_system(in, ship).fuel \in 0..FUEL_MAX

\* A Crystal was mined with less than 20 missing from the tank.
C2_Witness ==
  /\ pc = "poll"
  /\ mined = "Crystal"
  /\ input = "Mine"
  /\ ship.fuel = FUEL_MAX

\* C3: a frame ends the session with the Game Over line iff after its
\* physics and spawning the ship is on an asteroid's cell or fuel <= 0; so
\* while the loop waits for input the ship is on no asteroid and fuel > 0.
C3_GameOverIff ==
  /\ [][FrameStep =>
          ((pc' = "cleanup" /\ announced')
             <=> (Cell(ship') \in Cells(asteroids')
                    \/ ship.fuel - FUEL_DECAY <= 0))]_vars
  /\ [](InLoop => (Cell(ship) \notin Cells(asteroids) /\ ship.fuel > 0))

\* The game ended because fuel ran out, the ship on no asteroid.
C3_Witness ==
  /\ pc = "cleanup"
  /\ announced
  /\ ship.fuel = 0
  /\ Cell(ship) \notin Cells(asteroids)

\* C4: a Quit intent ends the session at once, the game state untouched and
\* no Game Over line printed; a session that left the loop for a collision
\* or for fuel has printed it before it exits.
C4_QuitSilent ==
  /\ [][(pc = "poll" /\ input' = "Quit" /\ pc' # "poll") =>
          (/\ pc' = "cleanup"
           /\ ~announced'
           /\ UNCHANGED << ship, asteroids, resources, score, tick, spawn_rate >>)]_vars
  /\ []((pc \in {"cleanup", "done"} /\ input = "Quit") => ~announced)
  /\ []((pc \in {"cleanup", "done"} /\ input # "Quit") =>
          (announced /\ (Cell(ship) \in Cells(asteroids) \/ ship.fuel <= 0)))

\* The session ended on an asteroid, fuel left, and the line was printed.
C4_Witness ==
  /\ pc = "done"
  /\ announced
  /\ Cell(ship) \in Cells(asteroids)
  /\ ship.fuel > 0

\* C5: while the loop runs, frames are processed whether or not a key ever
\* arrives: from the first wait for input, a frame is eventually processed
\* or the session leaves the loop.
C5_NoStall == (InLoop /\ frames = 0) ~> (frames > 0 \/ ~InLoop)

\* C6: the terminal is restored (raw mode off, alternate screen left, cursor
\* shown) on every exit of the process, a failed I/O operation included.
C6_CleanupOnEveryExit == pc \in {"done", "panicked"} => term = TermOff

\* C7: spawn_rate never increases from one frame to the next and is never
\* below 10.
C7_SpawnRateMonotone ==
  /\ [][spawn_rate' <= spawn_rate]_vars
  /\ [](spawn_rate >= SPAWN_RATE_MIN /\ spawn_rate > 0)

\* The ramp was due again with the rate already at its floor.
C7_Witness ==
  /\ spawn_rate = SPAWN_RATE_MIN
  /\ tick > 0
  /\ tick % RAMP_PERIOD = 0
  /\ tick > RAMP_PERIOD * ((SPAWN_RATE_START - SPAWN_RATE_MIN) \div RAMP_STEP)

\* C8: from 50 the rate drops by exactly 5 on every tick that is a multiple
\* of 500 (45 from tick 500, 40 from tick 1000, ...) until it is 10, stays 10
\* from then on, and does not change on any other tick.
C8_RampSchedule ==
  /\ [](spawn_rate = Max(SPAWN_RATE_START - RAMP_STEP * (tick \div RAMP_PERIOD),
                         SPAWN_RATE_MIN))
  /\ [][(tick' = tick + 1 /\ tick' % RAMP_PERIOD # 0) =>
          spawn_rate' = spawn_rate]_vars
  /\ [][(tick' = tick + 1 /\ tick' % RAMP_PERIOD = 0) =>
          spawn_rate' = IF spawn_rate = SPAWN_RATE_MIN THEN SPAWN_RATE_MIN
                        ELSE spawn_rate - RAMP_STEP]_vars

\* The rate has just reached its floor, on tick 4000.
C8_Witness ==
  /\ tick = RAMP_PERIOD * ((SPAWN_RATE_START - SPAWN_RATE_MIN) \div RAMP_STEP)
  /\ spawn_rate = SPAWN_RATE_MIN

\* The sequence res without its i-th element.
Without(res, i) == [j \in 1..(Len(res) - 1) |-> IF j < i THEN res[j] ELSE res[j + 1]]

\* C9: when mining_system runs with a Mine intent and a node is on the
\* ship's cell, that node leaves the collection and the cargo of its kind
\* grows by exactly 1, the other kinds unchanged, and no node is left on the
\* cell; with no node on the cell (a second Mine there) it returns nothing
\* and changes neither cargo nor the collection.
C9_MineOnce ==
  [][(MiningStep /\ input' = "Mine") =>
       IF Cell(ship') \in Cells(resources)
       THEN \E i \in 1..Len(resources) :
              /\ Cell(resources[i]) = Cell(ship')
              /\ resources' = Without(resources, i)
              /\ mined' = resources[i].kind
              /\ ship'.cargo = [ship.cargo EXCEPT ![resources[i].kind] = @ + 1]
              /\ Cell(ship') \notin Cells(resources')
       ELSE /\ mined' = Nothing
            /\ ship'.cargo = ship.cargo
            /\ resources' = resources]_vars

\* Five moves to the Gold node, a Mine that took it, and a second Mine on
\* the same cell that returned nothing.
C9_Witness ==
  /\ tick = 7
  /\ input = "Mine"
  /\ mined = Nothing
  /\ ship.cargo["Gold"] = 1
  /\ ship.x = 12 /\ ship.y = 7
  /\ Len(resources) = 2

\* C10 as stated: a mined Crystal adds exactly 20 to fuel unless fuel is
\* already 100, and then fuel stays 100; Iron and Gold leave fuel alone.
C10_AsStated ==
  [][MiningStep =>
       LET f == ship.fuel - FUEL_DECAY IN
       /\ mined' = "Crystal" =>
            ship'.fuel = IF f = FUEL_MAX THEN FUEL_MAX ELSE f + CRYSTAL_FUEL
       /\ mined' \in {"Iron", "Gold"} => ship'.fuel = f]_vars

\* C10 amended: a mined Crystal sets fuel to min(fuel + 20, 100): exactly 20
\* more when fuel was at most 80, and 100 when it was above 80; Iron and
\* Gold leave fuel alone.
C10_RefuelClamped ==
  [][MiningStep =>
       LET f == ship.fuel - FUEL_DECAY IN
       /\ mined' = "Crystal" =>
            ship'.fuel = IF f <= FUEL_MAX - CRYSTAL_FUEL
                         THEN f + CRYSTAL_FUEL
                         ELSE FUEL_MAX
       /\ mined' \in {"Iron", "Gold"} => ship'.fuel = f]_vars

\* A Crystal mined with fuel at most 80: the tank is 20 fuller and not full.
C10_Witness ==
  /\ pc = "poll"
  /\ input = "Mine"
  /\ mined = "Crystal"
  /\ ship.fuel = FUEL_START - tick * FUEL_DECAY + CRYSTAL_FUEL
  /\ ship.fuel < FUEL_MAX

\* ship.cargo.values().sum()
TotalCargo(s) == s.cargo["Iron"] + s.cargo["Crystal"] + s.cargo["Gold"]

\* C11: score starts at 0, grows by exactly 10 on each frame in which
\* mining_system returned a kind, is unchanged by every other step and never
\* decreases; so score is always 10 times the total cargo.
C11_ScoreTracksCargo ==
  /\ [][score' = IF MiningStep /\ mined' # Nothing
                 THEN score + REWARD
                 ELSE score]_vars
  /\ [][score' >= score]_vars
  /\ [](tick = 0 => score = 0)
  /\ [](score = REWARD * TotalCargo(ship))

\* Two nodes mined (Gold, then Iron) and twenty points scored.
C11_Witness ==
  /\ score = 2 * REWARD
  /\ ship.cargo["Gold"] = 1
  /\ ship.cargo["Iron"] = 1
  /\ mined = "Iron"
  /\ input = "Mine"

\* Three frames played, the last a Mine, the ship two cells to the right of
\* its start: the intents were Right, Right, Mine.
ScenarioPlayed ==
  /\ tick = 3
  /\ input = "Mine"
  /\ ship.x = START_X + 2
  /\ ship.y = START_Y

\* C12: from a new ship at (10,10) with fuel 100 and a Gold node at (12,10),
\* no asteroid on the way, the intents Right, Right, Mine end with the ship at
\* (12,10), cargo[Gold] = 1, fuel 98.5, score 10 and the Gold node gone.
C12_Scenario ==
  ScenarioPlayed =>
    /\ ship.cargo = [k \in Resource |-> IF k = "Gold" THEN 1 ELSE 0]
    /\ ship.fuel = FUEL_START - 3 * FUEL_DECAY
    /\ score = REWARD
    /\ mined = "Gold"
    /\ resources = SubSeq(ScenarioResources, 1, 2)
    /\ ~announced

\* The loop waits for the fourth intent after Right, Right, Mine.
C12_Witness ==
  /\ ScenarioPlayed
  /\ pc = "poll"
  /\ ship.cargo["Gold"] = 1

\* C13: every grid row of the rendered frame has the same number of
\* characters, wherever the ship, the asteroids and the resources are.
C13_FixedRowWidth ==
  pc = "shown" =>
    \A i, j \in 1..GRID_H : Len(screen.rows[i]) = Len(screen.rows[j])

\* The change of one coordinate at position p of 0..last for an intent that
\* is `less` towards 0 and `more` towards last.
Delta(in, less, more, p, last) ==
  IF in = less /\ p # 0 THEN -1
  ELSE IF in = more /\ p # last THEN 1
  ELSE 0

\* C14: one physics step moves the ship exactly one cell in the intent's
\* direction unless it is at that edge, does not move it at the edge or for
\* any other intent, never moves it on both axes, and lowers fuel by exactly
\* 0.5, floored at 0.0, whatever the intent.
C14_PhysicsStep ==
  [][pc = "physics" =>
       LET dx == Delta(input', "Left", "Right", ship.x, GRID_W - 1)
           dy == Delta(input', "Up", "Down", ship.y, GRID_H - 1)
       IN /\ ship'.x = ship.x + dx
          /\ ship'.y = ship.y + dy
          /\ dx = 0 \/ dy = 0
          /\ ship'.fuel = IF ship.fuel >= FUEL_DECAY
                          THEN ship.fuel - FUEL_DECAY
                          ELSE 0
          /\ ship'.cargo = ship.cargo]_vars

\* The tank is empty and the ship stands in the top right corner after an Up.
C14_Witness ==
  /\ pc = "physics"
  /\ ship.fuel = 0
  /\ ship.x = GRID_W - 1
  /\ ship.y = 0
  /\ input = "Up"

InGrid(c) == c.x \in 0..(GRID_W - 1) /\ c.y \in 0..(GRID_H - 1)

\* C15: on a frame, once tick is incremented, exactly one hazard is appended
\* iff tick is a multiple of the spawn rate in force before the frame's ramp
\* step, and none otherwise; the hazard lies in the grid, with no other
\* condition on its cell; the ramp may lower the rate on the same tick.
C15_SpawnOnMultiples ==
  [][tick' = tick + 1 =>
       IF tick' % spawn_rate = 0
       THEN /\ Len(asteroids') = Len(asteroids) + 1
            /\ SubSeq(asteroids', 1, Len(asteroids)) = asteroids
            /\ InGrid(asteroids'[Len(asteroids')])
       ELSE asteroids' = asteroids]_vars

\* Tick 500: the tenth asteroid was pushed (500 is a multiple of 50) and the
\* ramp lowered the rate to 45 on the same tick; it lies on an earlier one.
C15_Witness ==
  /\ tick = RAMP_PERIOD
  /\ spawn_rate = SPAWN_RATE_START - RAMP_STEP
  /\ Len(asteroids) = Len(InitialAsteroids) + RAMP_PERIOD \div SPAWN_RATE_START
  /\ asteroids[Len(asteroids)] = asteroids[Len(asteroids) - 1]

\* C16: on a frame that ends the game (after physics and spawning the ship
\* is on a hazard or fuel <= 0) mining_system is not applied: cargo, the
\* resources, the score and the last mining result are unchanged and fuel is
\* what physics left, also for a Mine intent on a resource cell.
C16_NoMiningOnLastFrame ==
  [][(FrameStep /\ (Cell(ship') \in Cells(asteroids')
                      \/ ship.fuel - FUEL_DECAY <= 0)) =>
       /\ pc' = "cleanup"
       /\ ship'.cargo = ship.cargo
       /\ resources' = resources
       /\ score' = score
       /\ mined' = mined
       /\ ship'.fuel = Max(ship.fuel - FUEL_DECAY, 0)]_vars

\* Fuel ran out on the frame of a Mine given on the Crystal node's cell: the
\* node is still there, nothing was credited and the tank stayed empty.
C16_Witness ==
  /\ pc = "cleanup"
  /\ announced
  /\ input = "Mine"
  /\ ship.fuel = 0
  /\ ship.x = 25 /\ ship.y = 10
  /\ Cell(ship) \in Cells(resources)
  /\ ship.cargo["Crystal"] = 0
  /\ score = 0

\* C17: hazards never move and are never removed: across every step the
\* asteroid collection before it is a prefix of the collection after it (so
\* the collection of any earlier frame is a prefix of any later one, the
\* three initial asteroids first), and only the spawner's push on a frame
\* changes it.
C17_HazardsOnlyGrow ==
  /\ [][/\ Len(asteroids') >= Len(asteroids)
        /\ SubSeq(asteroids', 1, Len(asteroids)) = asteroids
        /\ asteroids' # asteroids =>
             (FrameStep /\ tick' % spawn_rate = 0
                /\ Len(asteroids') = Len(asteroids) + 1)]_vars
  /\ [](SubSeq(asteroids, 1, Len(InitialAsteroids)) = InitialAsteroids)

\* Two frames after the spawn of tick 50 the loop goes on with four
\* asteroids, the spawned one not among the initial three.
C17_Witness ==
  /\ pc = "poll"
  /\ tick = SPAWN_RATE_START + 2
  /\ Len(asteroids) = Len(InitialAsteroids) + 1
  /\ Cell(asteroids[Len(asteroids)]) \notin Cells(InitialAsteroids)

\* The most frames the fuel of a session can pay for: the tank at the start
\* and the one Crystal, at 0.5 a frame.
LastTick == (FUEL_START + CRYSTAL_FUEL) \div FUEL_DECAY

\* C19: the start fuel and the single Crystal bound the session: the frames
\* processed plus the fuel left never exceed the start fuel plus the refill
\* of the Crystal if it was mined, so tick <= 240 in every state, tick never
\* reaches 500 and spawn_rate stays 50.
C19_SessionBounded ==
  /\ ship.cargo["Crystal"] <= 1
  /\ tick * FUEL_DECAY + ship.fuel
       <= FUEL_START + CRYSTAL_FUEL * ship.cargo["Crystal"]
  /\ tick <= LastTick
  /\ tick < RAMP_PERIOD
  /\ spawn_rate = SPAWN_RATE_START

\* The longest session: the Crystal mined without loss to the clamp, the
\* fuel running out on frame 240, where the game ends.
C19_Witness ==
  /\ pc = "cleanup"
  /\ announced
  /\ tick = LastTick
  /\ ship.fuel = 0
  /\ ship.cargo["Crystal"] = 1

\* The number of nodes of a kind left in the collection.
NodesOf(res, kind) == Cardinality({i \in 1..Len(res) : res[i].kind = kind})

\* C20: resources are conserved: the total cargo plus the nodes left is the
\* number of nodes created at the start, 3, and for each kind the cargo plus
\* the nodes of that kind left is 1; the collection changes only on a frame
\* whose mining succeeded, and then by losing exactly one node.
C20_ResourcesConserved ==
  /\ [](TotalCargo(ship) + Len(resources) = Len(InitialResources))
  /\ [](\A kind \in Resource :
          ship.cargo[kind] + NodesOf(resources, kind)
            = NodesOf(InitialResources, kind))
  /\ [](\A kind \in Resource : NodesOf(InitialResources, kind) = 1)
  /\ [][IF MiningStep /\ mined' # Nothing
        THEN \E i \in 1..Len(resources) : resources' = Without(resources, i)
        ELSE resources' = resources]_vars

\* Gold and Iron mined in one window: only the Crystal node is left.
C20_Witness ==
  /\ ship.cargo["Gold"] = 1
  /\ ship.cargo["Iron"] = 1
  /\ ship.cargo["Crystal"] = 0
  /\ Len(resources) = 1
  /\ resources[1].kind = "Crystal"

\* The asteroid and resource glyphs drawn in a row.
Drawn(row) == Cardinality({k \in 1..Len(row) : row[k] \in {"O", "*", "+", "$"}})

\* C18: the ship is drawn as a 3-character glyph at its column, and the two
\* cells to its right count as covered by it: in the ship's row exactly the
\* asteroids and resources outside the ship's cell and those two cells are
\* drawn.
C18_FootprintHides ==
  pc = "shown" =>
    LET row == screen.rows[ship.y + 1]
        covered == {ship.x + d : d \in 0..SHIP_PAD}
        visible == {c \in Cells(asteroids) \cup Cells(resources) :
                      c.y = ship.y /\ c.x \notin covered}
    IN /\ SubSeq(row, ship.x + 2, ship.x + 4) = ShipGlyph
       /\ Drawn(row) = Cardinality(visible)

====
